---- MODULE Spec2Model ----
(***************************************************************************)
(* PlateWatchers: the vote-to-score reconciliation engine.                 *)
(*                                                                         *)
(* The model follows src/App.tsx (the authenticated build: the vote        *)
(* handlers write the per-user vote log `user_votes` and push signed       *)
(* deltas to `global_rankings`; the ledger `userVotes` is rebuilt from     *)
(* the log by a snapshot listener), the earlier local-first build of the   *)
(* same component kept in src/firebase.ts (the ledger is React state,      *)
(* mutated by the handler itself), and the admin operations of             *)
(* src/contexts/AuthContext.tsx.                                           *)
(*                                                                         *)
(* An async handler is a sequence of awaited calls.  Everything such a     *)
(* handler reads (userVotes, isGlobalLive, the card's restaurant) is read  *)
(* from the closure of the render in which the click happened, so the      *)
(* calls it will make are fixed when it starts; each awaited call is one   *)
(* step, and other handlers, listeners and users run between the steps.    *)
(***************************************************************************)
EXTENDS Integers, Sequences, FiniteSets, TLC

Users == {"u1", "u2"}
RestaurantIds == {"A", "B"}
Categories == {"BBQ", "Tacos"}
VoteTypes == {"top", "runnerUp"}
NULL == "null"

\* Point weights: the literals of handleVote / handleVoteOverall / getRestaurantPoints.
TopPoints == 100
RunnerUpPoints == 25
OverallPoints == 500
\* types.ts / hydrate: a listing's default base score.
DefaultBasePoints == 100

\* Bounds of the exploration.
MaxVotes == 2
MaxSerialVotes == 3
MaxToggleVotes == 2
MaxInFlight == 2
MaxAdminVotes == 2
MaxReloads == 1
MaxRecats == 1
MaxErrors == 1
MaxLoads == 2
MaxFailures == 1
MaxSubmissions == 2
MaxSaving == 2
MaxNow == 16
MaxBurst == 2

\* The client addresses of the rate limiter's callers.
Ips == {"ip1", "ip2"}

VARIABLES
    restaurants,      \* Firestore collection "restaurants": id -> [category, basePoints]
    user_votes,       \* Firestore collection "user_votes": document id -> vote document
    global_rankings,  \* Firestore collection "global_rankings": id -> points
    data,             \* per client: the loaded restaurant set (React state `data`), NULL before a load
    userVotes,        \* per client: the ledger (React state `userVotes`)
    globalScores,     \* per client: the last global snapshot (React state `globalScores`)
    isGlobalLive,     \* per client: React state `isGlobalLive`
    rankingsSub,      \* per client: the global_rankings listener: none | waiting | emitted | error
    handlers,         \* per client: the vote handlers in flight, each the calls it has still to make
    recat,            \* the admin's updateRestaurantCategory in flight between getDocs and commit (a sequence of at most one)
    build,            \* per client: "auth" (src/App.tsx) or "local" (the local-first App of src/firebase.ts)
    emitted,          \* history: per client and restaurant, the sum of the deltas handed to syncVoteToFirebase
    overallApplied,   \* history: per client and restaurant, the sum of the +-500 deltas applied to global_rankings
    lastSignal,       \* history: per client, what the global_rankings effect did last: none | emission | error
    trace,            \* history: the vote requests issued so far, in order (kept by the serial specifications)
    votes0,           \* history: each client's ledger in the initial state
    searchQuery,      \* React state searchQuery of each client: the text of the search box
    used,             \* history: how many vote requests, subscription errors, recategorizations, loads and failed writes happened
    deletion,         \* the admin's deleteRestaurant in flight between getDocs and commit (a sequence of at most one)
    saving,           \* the saveRestaurant calls in flight between getDoc and setDoc
    submitted,        \* history: the [name, location, id] of every listing the hydrate handler has produced
    ipWindows,        \* the rate limiter's Map ipWindows: ip -> [count, resetAt]
    lastCleanup,      \* the rate limiter's lastCleanup
    now,              \* the clock read by Date.now(), in ticks
    allowedAt,        \* history: per ip, the clock readings of the requests the limiter allowed, in order
    lastCheck         \* history: the last call of checkRateLimit and what it returned (a sequence of at most one)

vars == << restaurants, user_votes, global_rankings, data, userVotes, globalScores,
           isGlobalLive, rankingsSub, handlers, recat, build, emitted, overallApplied,
           lastSignal, trace, votes0, searchQuery, used, deletion, saving, submitted,
           ipWindows, lastCleanup, now, allowedAt, lastCheck >>

EmptyMap == [x \in {} |-> NULL]

\* m with key k set to v (a JS object / Firestore collection write).
Put(m, k, v) == [x \in DOMAIN m \cup {k} |-> IF x = k THEN v ELSE m[x]]

\* m without the keys of ks.
Drop(m, ks) == [x \in DOMAIN m \ ks |-> m[x]]

\* `m[k] || 0`
OrZero(m, k) == IF k \in DOMAIN m THEN m[k] ELSE 0

\* React state `data`: null before the first setData.
NoData == [loaded |-> FALSE, restaurants |-> EmptyMap]
Loaded(saved) == [loaded |-> TRUE, restaurants |-> saved]

EmptyVotes == [categoryVotes |-> EmptyMap, overallTopPick |-> NULL]

\* `userVotes.categoryVotes[category]` read with `?.`: a missing entry has no holders.
categoryVote(votes, category) ==
    IF category \in DOMAIN votes.categoryVotes
    THEN votes.categoryVotes[category]
    ELSE [topId |-> NULL, runnerUpId |-> NULL]

\* `${user.uid}_${category}_${type}`
voteId(uid, category, type) == uid \o "_" \o category \o "_" \o type

\* `${user.uid}_overall`
overallVoteId(uid) == uid \o "_overall"

\* `type === 'top' ? 100 : 25`
weight(type) == IF type = "top" THEN TopPoints ELSE RunnerUpPoints

\* The awaited calls of a handler.
DeleteDoc(ref) ==
    [op |-> "deleteDoc", ref |-> ref, id |-> NULL, category |-> NULL, voteType |-> NULL, delta |-> 0]
SetDoc(ref, id, category, voteType) ==
    [op |-> "setDoc", ref |-> ref, id |-> id, category |-> category, voteType |-> voteType, delta |-> 0]
Sync(id, delta) ==
    [op |-> "sync", ref |-> NULL, id |-> id, category |-> NULL, voteType |-> NULL, delta |-> delta]

\* handleVote without the delta of a displaced holder (a mutant of handleVoteCalls).
handleVoteCallsKeepsPrev(uid, current, id, category, type) ==
    LET voteRef == voteId(uid, category, type)
        isRemoving == (type = "top" /\ current.topId = id)
                      \/ (type = "runnerUp" /\ current.runnerUpId = id)
        otherType == IF type = "top" THEN "runnerUp" ELSE "top"
        otherRef == voteId(uid, category, otherType)
        otherId == IF type = "top" THEN current.runnerUpId ELSE current.topId
    IN  IF isRemoving
        THEN << DeleteDoc(voteRef), Sync(id, 0 - weight(type)) >>
        ELSE (IF otherId = id
              THEN << DeleteDoc(otherRef), Sync(id, 0 - weight(otherType)) >> ELSE << >>)
             \o << SetDoc(voteRef, id, category, type), Sync(id, weight(type)) >>

\* handleVote that writes and credits the new holder before it removes the old ones (a
\* mutant of handleVoteCalls).
handleVoteCallsAddFirst(uid, current, id, category, type) ==
    LET voteRef == voteId(uid, category, type)
        isRemoving == (type = "top" /\ current.topId = id)
                      \/ (type = "runnerUp" /\ current.runnerUpId = id)
        prevId == IF type = "top" THEN current.topId ELSE current.runnerUpId
        otherType == IF type = "top" THEN "runnerUp" ELSE "top"
        otherRef == voteId(uid, category, otherType)
        otherId == IF type = "top" THEN current.runnerUpId ELSE current.topId
    IN  IF isRemoving
        THEN << DeleteDoc(voteRef), Sync(id, 0 - weight(type)) >>
        ELSE << SetDoc(voteRef, id, category, type), Sync(id, weight(type)) >>
             \o (IF prevId # NULL /\ prevId # id
                 THEN << Sync(prevId, 0 - weight(type)) >> ELSE << >>)
             \o (IF otherId = id
                 THEN << DeleteDoc(otherRef), Sync(id, 0 - weight(otherType)) >> ELSE << >>)

\* The body of the authenticated handleVote: the calls it awaits, in order,
\* given the ledger entry `current` of the render it was created in.
handleVoteCalls(uid, current, id, category, type) ==
    LET voteRef == voteId(uid, category, type)
        isRemoving == (type = "top" /\ current.topId = id)
                      \/ (type = "runnerUp" /\ current.runnerUpId = id)
        prevId == IF type = "top" THEN current.topId ELSE current.runnerUpId
        otherType == IF type = "top" THEN "runnerUp" ELSE "top"
        otherRef == voteId(uid, category, otherType)
        otherId == IF type = "top" THEN current.runnerUpId ELSE current.topId
    IN  IF isRemoving
        THEN << DeleteDoc(voteRef), Sync(id, 0 - weight(type)) >>
        ELSE (IF prevId # NULL /\ prevId # id
              THEN << Sync(prevId, 0 - weight(type)) >> ELSE << >>)
             \o (IF otherId = id
                 THEN << DeleteDoc(otherRef), Sync(id, 0 - weight(otherType)) >> ELSE << >>)
             \o << SetDoc(voteRef, id, category, type), Sync(id, weight(type)) >>

\* handleVoteOverall that keeps one overall document per restaurant (a mutant of
\* handleVoteOverallCalls).
handleVoteOverallCallsPerRestaurant(uid, pick, id) ==
    LET voteRef == overallVoteId(uid) \o "_" \o id
        isRemoving == pick = id
        prevId == pick
    IN  IF isRemoving
        THEN << DeleteDoc(voteRef), Sync(id, 0 - OverallPoints) >>
        ELSE (IF prevId # NULL /\ prevId # id
              THEN << Sync(prevId, 0 - OverallPoints) >> ELSE << >>)
             \o << SetDoc(voteRef, id, NULL, "overall"), Sync(id, OverallPoints) >>

\* The body of the authenticated handleVoteOverall.
handleVoteOverallCalls(uid, pick, id) ==
    LET voteRef == overallVoteId(uid)
        isRemoving == pick = id
        prevId == pick
    IN  IF isRemoving
        THEN << DeleteDoc(voteRef), Sync(id, 0 - OverallPoints) >>
        ELSE (IF prevId # NULL /\ prevId # id
              THEN << Sync(prevId, 0 - OverallPoints) >> ELSE << >>)
             \o << SetDoc(voteRef, id, NULL, "overall"), Sync(id, OverallPoints) >>

\* The user_votes listener: the ledger rebuilt from the user's vote documents.
votesFromSnapshot(uid) ==
    LET docs == {d \in DOMAIN user_votes : user_votes[d].userId = uid}
        ofType(t) == {d \in docs : user_votes[d].voteType = t}
        cats == {user_votes[d].category : d \in docs \ ofType("overall")}
        held(S) == IF S = {} THEN NULL ELSE user_votes[CHOOSE d \in S : TRUE].restaurantId
    IN  [categoryVotes |->
            [c \in cats |->
                [topId |-> held({d \in ofType("top") : user_votes[d].category = c}),
                 runnerUpId |-> held({d \in ofType("runnerUp") : user_votes[d].category = c})]],
         overallTopPick |-> held(ofType("overall"))]

\* The global_rankings listener: `scores[doc.id] = doc.data().points || 0`.
scoresFromSnapshot == [id \in DOMAIN global_rankings |-> global_rankings[id]]

\* getRestaurantPoints with the boost of a vote held in any category (a mutant of
\* getRestaurantPoints).
getRestaurantPointsAnyCategory(u, id) ==
    LET restaurant == data[u].restaurants[id]
        global == OrZero(globalScores[u], id)
        held == {categoryVote(userVotes[u], c) : c \in Categories}
        userBoost == (IF \E v \in held : v.topId = id THEN TopPoints ELSE 0)
                     + (IF \E v \in held : v.runnerUpId = id THEN RunnerUpPoints ELSE 0)
                     + (IF userVotes[u].overallTopPick = id THEN OverallPoints ELSE 0)
    IN  restaurant.basePoints + global + userBoost

\* getRestaurantPoints of client u for the restaurant id of its loaded set.
getRestaurantPoints(u, id) ==
    LET restaurant == data[u].restaurants[id]
        global == OrZero(globalScores[u], id)
        catVote == categoryVote(userVotes[u], restaurant.category)
        userBoost == (IF catVote.topId = id THEN TopPoints ELSE 0)
                     + (IF catVote.runnerUpId = id THEN RunnerUpPoints ELSE 0)
                     + (IF userVotes[u].overallTopPick = id THEN OverallPoints ELSE 0)
    IN  restaurant.basePoints + global + userBoost


\* The local-first updater without the clearing of the other slot (a mutant of localVote).
localVoteKeepsOther(current, id, type) ==
    IF type = "top"
    THEN LET isRemoving == current.topId = id
         IN  [next |-> [topId |-> IF isRemoving THEN NULL ELSE id,
                        runnerUpId |-> current.runnerUpId],
              delta |-> IF isRemoving THEN 0 - TopPoints ELSE TopPoints]
    ELSE LET isRemoving == current.runnerUpId = id
         IN  [next |-> [topId |-> current.topId,
                        runnerUpId |-> IF isRemoving THEN NULL ELSE id],
              delta |-> IF isRemoving THEN 0 - RunnerUpPoints ELSE RunnerUpPoints]

\* The local-first handleVote's setUserVotes updater: the next ledger entry and the one
\* delta it hands to syncVoteToFirebase(id, delta).
localVote(current, id, type) ==
    IF type = "top"
    THEN LET isRemoving == current.topId = id
             clearsOther == ~isRemoving /\ current.runnerUpId = id
         IN  [next |-> [topId |-> IF isRemoving THEN NULL ELSE id,
                        runnerUpId |-> IF clearsOther THEN NULL ELSE current.runnerUpId],
              delta |-> (IF isRemoving THEN 0 - TopPoints ELSE TopPoints)
                        + (IF clearsOther THEN 0 - RunnerUpPoints ELSE 0)]
    ELSE LET isRemoving == current.runnerUpId = id
             clearsOther == ~isRemoving /\ current.topId = id
         IN  [next |-> [topId |-> IF clearsOther THEN NULL ELSE current.topId,
                        runnerUpId |-> IF isRemoving THEN NULL ELSE id],
              delta |-> (IF isRemoving THEN 0 - RunnerUpPoints ELSE RunnerUpPoints)
                        + (IF clearsOther THEN 0 - TopPoints ELSE 0)]

\* The local-first handleVoteOverall's updater: the next pick and its delta.
localVoteOverall(pick, id) ==
    LET isRemoving == pick = id
    IN  [next |-> IF isRemoving THEN NULL ELSE id,
         delta |-> IF isRemoving THEN 0 - OverallPoints ELSE OverallPoints]

\* As pushed, without the early return on `!isGlobalLive`.
pushedAlways(rankings, live, id, delta) ==
    Put(rankings, id, OrZero(rankings, id) + delta)

\* The write of syncVoteToFirebase: nothing unless live, else `points: increment(delta)`, merged.
pushed(rankings, live, id, delta) ==
    IF live THEN Put(rankings, id, OrZero(rankings, id) + delta) ELSE rankings

IsOverallDelta(delta) == delta = OverallPoints \/ delta = 0 - OverallPoints

Zero == [u \in Users |-> [id \in RestaurantIds |-> 0]]

Listing(cat) == [category |-> cat, basePoints |-> DefaultBasePoints]

Request(u, id, type) == [user |-> u, id |-> id, type |-> type]

\* The vote actions below leave `trace` to the specification that runs them: a serial
\* specification appends the request, a concurrent one keeps only the count in `used`.
Record(u, id, type) == trace' = Append(trace, Request(u, id, type))

\* A client has no handler in flight and, in the authenticated build, has received the
\* snapshot of its latest vote documents.
Quiet(u) ==
    /\ handlers[u] = << >>
    /\ build[u] = "auth" => userVotes[u] = votesFromSnapshot(u)

\* The two listings of the sample city, in one category.
SampleListings == ("A" :> Listing("BBQ")) @@ ("B" :> Listing("BBQ"))

\* The state after construction: the saved listings are the sample set or none, two
\* signed-in clients of the authenticated build, nothing loaded yet.
Init ==
    /\ restaurants \in {EmptyMap, SampleListings}
    /\ user_votes = EmptyMap
    /\ global_rankings = EmptyMap
    /\ data = [u \in Users |-> NoData]
    /\ userVotes = [u \in Users |-> EmptyVotes]
    /\ globalScores = [u \in Users |-> EmptyMap]
    /\ isGlobalLive = [u \in Users |-> FALSE]
    /\ rankingsSub = [u \in Users |-> "none"]
    /\ handlers = [u \in Users |-> << >>]
    /\ recat = << >>
    /\ build = [u \in Users |-> "auth"]
    /\ emitted = Zero
    /\ overallApplied = Zero
    /\ lastSignal = [u \in Users |-> "none"]
    /\ trace = << >>
    /\ votes0 = [u \in Users |-> EmptyVotes]
    /\ searchQuery = [u \in Users |-> << >>]
    /\ deletion = << >>
    /\ saving = << >>
    /\ submitted = {}
    /\ ipWindows = EmptyMap
    /\ lastCleanup = 0
    /\ now = 0
    /\ allowedAt = [ip \in Ips |-> << >>]
    /\ lastCheck = << >>
    /\ used = [votes |-> 0, errors |-> 0, recats |-> 0, loads |-> 0, failures |-> 0,
              submissions |-> 0]

\* A click on a card of client u: handleVote(restaurant.id, restaurant.category, type)
\* of the authenticated build, up to its first await.
handleVote(u, id, type) ==
    /\ build[u] = "auth"
    /\ id \in DOMAIN data[u].restaurants
    /\ Len(handlers[u]) < MaxInFlight
    /\ LET category == data[u].restaurants[id].category
           current == categoryVote(userVotes[u], category)
       IN  handlers' = [handlers EXCEPT ![u] =
               Append(@, [calls |-> handleVoteCalls(u, current, id, category, type),
                          live |-> isGlobalLive[u]])]
    /\ used' = [used EXCEPT !.votes = @ + 1]
    /\ UNCHANGED << restaurants, user_votes, global_rankings, data, userVotes, globalScores,
                    isGlobalLive, rankingsSub, recat, build, emitted, overallApplied,
                    lastSignal, votes0, searchQuery, deletion, saving, submitted,
                    ipWindows, lastCleanup, now, allowedAt, lastCheck >>

\* A click on the overall button of a card of client u: handleVoteOverall(restaurant.id).
handleVoteOverall(u, id) ==
    /\ build[u] = "auth"
    /\ id \in DOMAIN data[u].restaurants
    /\ Len(handlers[u]) < MaxInFlight
    /\ handlers' = [handlers EXCEPT ![u] =
           Append(@, [calls |-> handleVoteOverallCalls(u, userVotes[u].overallTopPick, id),
                      live |-> isGlobalLive[u]])]
    /\ used' = [used EXCEPT !.votes = @ + 1]
    /\ UNCHANGED << restaurants, user_votes, global_rankings, data, userVotes, globalScores,
                    isGlobalLive, rankingsSub, recat, build, emitted, overallApplied,
                    lastSignal, votes0, searchQuery, deletion, saving, submitted,
                    ipWindows, lastCleanup, now, allowedAt, lastCheck >>

\* Handler i of client u with its first call done; a handler with no call left is gone.
Advance(u, i) ==
    LET h == handlers[u][i]
        rest == [h EXCEPT !.calls = Tail(@)]
        before == SubSeq(handlers[u], 1, i - 1)
        after == SubSeq(handlers[u], i + 1, Len(handlers[u]))
    IN  [handlers EXCEPT ![u] =
            IF Len(h.calls) = 1 THEN before \o after ELSE before \o << rest >> \o after]

NextCall(u, i) == Head(handlers[u][i].calls)

\* `await deleteDoc(voteRef)` of handler i of client u.
deleteDoc(u, i) ==
    /\ i \in DOMAIN handlers[u]
    /\ NextCall(u, i).op = "deleteDoc"
    /\ user_votes' = Drop(user_votes, {NextCall(u, i).ref})
    /\ handlers' = Advance(u, i)
    /\ UNCHANGED << restaurants, global_rankings, data, userVotes, globalScores, isGlobalLive,
                    rankingsSub, recat, build, emitted, overallApplied, lastSignal, trace,
                    votes0, used, searchQuery, deletion, saving, submitted,
                    ipWindows, lastCleanup, now, allowedAt, lastCheck >>

\* `await setDoc(voteRef, {userId, restaurantId, category, voteType, ...})`.
setDoc(u, i) ==
    /\ i \in DOMAIN handlers[u]
    /\ NextCall(u, i).op = "setDoc"
    /\ LET c == NextCall(u, i)
       IN  user_votes' = Put(user_votes, c.ref,
               [userId |-> u, restaurantId |-> c.id, category |-> c.category,
                voteType |-> c.voteType])
    /\ handlers' = Advance(u, i)
    /\ UNCHANGED << restaurants, global_rankings, data, userVotes, globalScores, isGlobalLive,
                    rankingsSub, recat, build, emitted, overallApplied, lastSignal, trace,
                    votes0, used, searchQuery, deletion, saving, submitted,
                    ipWindows, lastCleanup, now, allowedAt, lastCheck >>

\* `await syncVoteToFirebase(id, delta)` of handler i of client u.
syncVoteToFirebase(u, i) ==
    /\ i \in DOMAIN handlers[u]
    /\ NextCall(u, i).op = "sync"
    /\ LET c == NextCall(u, i)
           live == handlers[u][i].live
       IN  /\ global_rankings' = pushed(global_rankings, live, c.id, c.delta)
           /\ emitted' = [emitted EXCEPT ![u][c.id] = @ + c.delta]
           /\ overallApplied' =
                  IF live /\ IsOverallDelta(c.delta)
                  THEN [overallApplied EXCEPT ![u][c.id] = @ + c.delta]
                  ELSE overallApplied
    /\ handlers' = Advance(u, i)
    /\ UNCHANGED << restaurants, user_votes, data, userVotes, globalScores, isGlobalLive,
                    rankingsSub, recat, build, lastSignal, trace, votes0, used, searchQuery, deletion, saving, submitted,
                    ipWindows, lastCleanup, now, allowedAt, lastCheck >>

\* `await deleteDoc(voteRef)` or `await setDoc(voteRef, ...)` of handler i of client u
\* rejects: the handler's catch logs the error and the handler ends, its remaining calls
\* are never made.
writeFails(u, i) ==
    /\ i \in DOMAIN handlers[u]
    /\ NextCall(u, i).op \in {"deleteDoc", "setDoc"}
    /\ handlers' = [handlers EXCEPT ![u] =
           SubSeq(@, 1, i - 1) \o SubSeq(@, i + 1, Len(@))]
    /\ used' = [used EXCEPT !.failures = @ + 1]
    /\ UNCHANGED << restaurants, user_votes, global_rankings, data, userVotes, globalScores,
                    isGlobalLive, rankingsSub, recat, build, emitted, overallApplied,
                    lastSignal, trace, votes0, searchQuery, deletion, saving, submitted,
                    ipWindows, lastCleanup, now, allowedAt, lastCheck >>

\* A rejected push that ends the handler, as a rejected vote document write does (a mutant
\* of syncFails).
syncFailsAborts(u, i) ==
    /\ i \in DOMAIN handlers[u]
    /\ NextCall(u, i).op = "sync"
    /\ handlers[u][i].live
    /\ emitted' = [emitted EXCEPT ![u][NextCall(u, i).id] = @ + NextCall(u, i).delta]
    /\ handlers' = [handlers EXCEPT ![u] =
           SubSeq(@, 1, i - 1) \o SubSeq(@, i + 1, Len(@))]
    /\ used' = [used EXCEPT !.failures = @ + 1]
    /\ UNCHANGED << restaurants, user_votes, global_rankings, data, userVotes, globalScores,
                    isGlobalLive, rankingsSub, recat, build, overallApplied, lastSignal,
                    trace, votes0, searchQuery, deletion, saving, submitted,
                    ipWindows, lastCleanup, now, allowedAt, lastCheck >>

\* The write of `await syncVoteToFirebase(id, delta)` of handler i of client u rejects:
\* syncVoteToFirebase's own catch swallows the error and the handler goes on.
syncFails(u, i) ==
    /\ i \in DOMAIN handlers[u]
    /\ NextCall(u, i).op = "sync"
    /\ handlers[u][i].live
    /\ emitted' = [emitted EXCEPT ![u][NextCall(u, i).id] = @ + NextCall(u, i).delta]
    /\ handlers' = Advance(u, i)
    /\ used' = [used EXCEPT !.failures = @ + 1]
    /\ UNCHANGED << restaurants, user_votes, global_rankings, data, userVotes, globalScores,
                    isGlobalLive, rankingsSub, recat, build, overallApplied, lastSignal,
                    trace, votes0, searchQuery, deletion, saving, submitted,
                    ipWindows, lastCleanup, now, allowedAt, lastCheck >>

\* `syncVoteToFirebase(id, delta)` of the local-first handlers reads `delta` right after
\* setUserVotes(updater): React has run the updater inside that call (the delta is the
\* computed one) or defers it to the next render (the delta is still its initial 0).
deltaRead(computed) == {computed, 0}

\* The local-first build: handleVote(restaurant.id, restaurant.category, type), whole.
handleVoteLocal(u, id, type) ==
    /\ build[u] = "local"
    /\ id \in DOMAIN data[u].restaurants
    /\ LET category == data[u].restaurants[id].category
           r == localVote(categoryVote(userVotes[u], category), id, type)
       IN  /\ userVotes' = [userVotes EXCEPT ![u].categoryVotes = Put(@, category, r.next)]
           /\ \E delta \in deltaRead(r.delta) :
                  /\ global_rankings' = pushed(global_rankings, isGlobalLive[u], id, delta)
                  /\ emitted' = [emitted EXCEPT ![u][id] = @ + delta]
    /\ used' = [used EXCEPT !.votes = @ + 1]
    /\ UNCHANGED << restaurants, user_votes, data, globalScores, isGlobalLive, rankingsSub,
                    handlers, recat, build, overallApplied, lastSignal, votes0, searchQuery, deletion, saving, submitted,
                    ipWindows, lastCleanup, now, allowedAt, lastCheck >>

\* The local-first build: handleVoteOverall(restaurant.id), whole.
handleVoteOverallLocal(u, id) ==
    /\ build[u] = "local"
    /\ id \in DOMAIN data[u].restaurants
    /\ LET r == localVoteOverall(userVotes[u].overallTopPick, id)
       IN  /\ userVotes' = [userVotes EXCEPT ![u].overallTopPick = r.next]
           /\ \E delta \in deltaRead(r.delta) :
                  /\ global_rankings' = pushed(global_rankings, isGlobalLive[u], id, delta)
                  /\ emitted' = [emitted EXCEPT ![u][id] = @ + delta]
                  /\ overallApplied' =
                         IF isGlobalLive[u]
                         THEN [overallApplied EXCEPT ![u][id] = @ + delta]
                         ELSE overallApplied
    /\ used' = [used EXCEPT !.votes = @ + 1]
    /\ UNCHANGED << restaurants, user_votes, data, globalScores, isGlobalLive, rankingsSub,
                    handlers, recat, build, lastSignal, votes0, searchQuery, deletion, saving, submitted,
                    ipWindows, lastCleanup, now, allowedAt, lastCheck >>

\* The user_votes listener of client u fires: setUserVotes(votes).
onUserVotesSnapshot(u) ==
    /\ build[u] = "auth"
    /\ userVotes[u] # votesFromSnapshot(u)
    /\ userVotes' = [userVotes EXCEPT ![u] = votesFromSnapshot(u)]
    /\ UNCHANGED << restaurants, user_votes, global_rankings, data, globalScores, isGlobalLive,
                    rankingsSub, handlers, recat, build, emitted, overallApplied, lastSignal,
                    trace, votes0, used, searchQuery, deletion, saving, submitted,
                    ipWindows, lastCleanup, now, allowedAt, lastCheck >>

\* The load of the saved restaurants by client u (loadFromDb on mount, which calls
\* setData only for a non-empty set, and the reloads after an admin operation, which
\* always call it), and the global_rankings effect that depends on `data`: with no
\* restaurant the flag is cleared, otherwise the old listener is unsubscribed and a new
\* one is opened.
loadFromDb(u) ==
    /\ data' = [data EXCEPT ![u] =
           IF DOMAIN restaurants = {} /\ ~data[u].loaded THEN @ ELSE Loaded(restaurants)]
    /\ IF DOMAIN restaurants = {}
       THEN /\ isGlobalLive' = [isGlobalLive EXCEPT ![u] = FALSE]
            /\ rankingsSub' = [rankingsSub EXCEPT ![u] = "none"]
            /\ lastSignal' = [lastSignal EXCEPT ![u] = "none"]
       ELSE /\ isGlobalLive' = isGlobalLive
            /\ rankingsSub' = [rankingsSub EXCEPT ![u] = "waiting"]
            /\ lastSignal' = lastSignal
    /\ used' = [used EXCEPT !.loads = @ + 1]
    /\ UNCHANGED << restaurants, user_votes, global_rankings, userVotes, globalScores,
                    handlers, recat, build, emitted, overallApplied, trace, votes0, searchQuery, deletion, saving, submitted,
                    ipWindows, lastCleanup, now, allowedAt, lastCheck >>

\* The global_rankings listener of client u emits: setGlobalScores(scores); setIsGlobalLive(true).
onRankingsSnapshot(u) ==
    /\ rankingsSub[u] \in {"waiting", "emitted"}
    /\ rankingsSub[u] = "waiting" \/ globalScores[u] # scoresFromSnapshot
    /\ globalScores' = [globalScores EXCEPT ![u] = scoresFromSnapshot]
    /\ isGlobalLive' = [isGlobalLive EXCEPT ![u] = TRUE]
    /\ rankingsSub' = [rankingsSub EXCEPT ![u] = "emitted"]
    /\ lastSignal' = [lastSignal EXCEPT ![u] = "emission"]
    /\ UNCHANGED << restaurants, user_votes, global_rankings, data, userVotes, handlers,
                    recat, build, emitted, overallApplied, trace, votes0, used, searchQuery, deletion, saving, submitted,
                    ipWindows, lastCleanup, now, allowedAt, lastCheck >>

\* The global_rankings listener of client u fails: setIsGlobalLive(false); the listener is dead.
onRankingsError(u) ==
    /\ rankingsSub[u] \in {"waiting", "emitted"}
    /\ isGlobalLive' = [isGlobalLive EXCEPT ![u] = FALSE]
    /\ rankingsSub' = [rankingsSub EXCEPT ![u] = "error"]
    /\ lastSignal' = [lastSignal EXCEPT ![u] = "error"]
    /\ used' = [used EXCEPT !.errors = @ + 1]
    /\ UNCHANGED << restaurants, user_votes, global_rankings, data, userVotes, globalScores,
                    handlers, recat, build, emitted, overallApplied, trace, votes0, searchQuery, deletion, saving, submitted,
                    ipWindows, lastCleanup, now, allowedAt, lastCheck >>

\* updateRestaurantCategory(id, newCategory, oldCategory) up to `await getDocs(q)`: the
\* admin's card shows the stored category; the query result is what the batch will delete.
updateRestaurantCategory(id, newCategory) ==
    /\ recat = << >>
    /\ id \in DOMAIN restaurants
    /\ newCategory # restaurants[id].category
    /\ LET oldCategory == restaurants[id].category
       IN  recat' = << [id |-> id, newCategory |-> newCategory, oldCategory |-> oldCategory,
                        refs |-> {d \in DOMAIN user_votes :
                                     /\ user_votes[d].restaurantId = id
                                     /\ user_votes[d].category = oldCategory}] >>
    /\ used' = [used EXCEPT !.recats = @ + 1]
    /\ UNCHANGED << restaurants, user_votes, global_rankings, data, userVotes, globalScores,
                    isGlobalLive, rankingsSub, handlers, build, emitted, overallApplied,
                    lastSignal, trace, votes0, searchQuery, deletion, saving, submitted,
                    ipWindows, lastCleanup, now, allowedAt, lastCheck >>

\* `await batch.commit()`: the category update and the deletes of the queried documents.
batchCommit ==
    /\ recat # << >>
    /\ restaurants' = [restaurants EXCEPT ![recat[1].id].category = recat[1].newCategory]
    /\ user_votes' = Drop(user_votes, recat[1].refs)
    /\ recat' = << >>
    /\ UNCHANGED << global_rankings, data, userVotes, globalScores, isGlobalLive, rankingsSub,
                    handlers, build, emitted, overallApplied, lastSignal, trace, votes0, used, searchQuery, deletion, saving, submitted,
                    ipWindows, lastCleanup, now, allowedAt, lastCheck >>

\* deleteRestaurant(id) up to `await getDocs(q)`: the batch holds the delete of the
\* listing; the query result is the set of vote documents the batch will delete.
deleteRestaurant(id) ==
    /\ deletion = << >>
    /\ id \in DOMAIN restaurants
    /\ deletion' = << [id |-> id,
                       refs |-> {d \in DOMAIN user_votes : user_votes[d].restaurantId = id}] >>
    /\ UNCHANGED << restaurants, user_votes, global_rankings, data, userVotes, globalScores,
                    isGlobalLive, rankingsSub, handlers, recat, build, emitted, overallApplied,
                    lastSignal, trace, votes0, searchQuery, used, saving, submitted,
                    ipWindows, lastCleanup, now, allowedAt, lastCheck >>

\* `await batch.commit()` of deleteRestaurant: the deletes of the listing, of the queried
\* vote documents and of the global_rankings entry, applied together.
deleteCommit ==
    /\ deletion # << >>
    /\ restaurants' = Drop(restaurants, {deletion[1].id})
    /\ user_votes' = Drop(user_votes, deletion[1].refs)
    /\ global_rankings' = Drop(global_rankings, {deletion[1].id})
    /\ deletion' = << >>
    /\ UNCHANGED << data, userVotes, globalScores, isGlobalLive, rankingsSub, handlers, recat,
                    build, emitted, overallApplied, lastSignal, trace, votes0, searchQuery, used, saving, submitted,
                    ipWindows, lastCleanup, now, allowedAt, lastCheck >>

\* The awaited calls of the handlers in flight and the user_votes listener.
Steps(U) ==
    \/ \E u \in U : \E i \in 1..MaxInFlight : deleteDoc(u, i)
    \/ \E u \in U : \E i \in 1..MaxInFlight : setDoc(u, i)
    \/ \E u \in U : \E i \in 1..MaxInFlight : syncVoteToFirebase(u, i)
    \/ \E u \in U : onUserVotesSnapshot(u)

\* Clients whose listing set is loaded and whose global_rankings listener has either
\* emitted (live) or failed (not live).
Settled(live) ==
    /\ data = [u \in Users |-> Loaded(restaurants)]
    /\ isGlobalLive = live
    /\ rankingsSub = [u \in Users |-> IF live[u] THEN "emitted" ELSE "error"]
    /\ lastSignal = [u \in Users |-> IF live[u] THEN "emission" ELSE "error"]

\* ---------------------------------------------------------------------------
\* Spec: every signed-in client votes, handlers of one client overlap at their awaits.
InitLoaded ==
    /\ restaurants = SampleListings
    /\ user_votes = EmptyMap
    /\ global_rankings = EmptyMap
    /\ \E live \in [Users -> BOOLEAN] : Settled(live)
    /\ userVotes = [u \in Users |-> EmptyVotes]
    /\ globalScores = [u \in Users |-> EmptyMap]
    /\ handlers = [u \in Users |-> << >>]
    /\ recat = << >>
    /\ build = [u \in Users |-> "auth"]
    /\ emitted = Zero
    /\ overallApplied = Zero
    /\ trace = << >>
    /\ votes0 = [u \in Users |-> EmptyVotes]
    /\ searchQuery = [u \in Users |-> << >>]
    /\ deletion = << >>
    /\ saving = << >>
    /\ submitted = {}
    /\ ipWindows = EmptyMap
    /\ lastCleanup = 0
    /\ now = 0
    /\ allowedAt = [ip \in Ips |-> << >>]
    /\ lastCheck = << >>
    /\ used = [votes |-> 0, errors |-> 0, recats |-> 0, loads |-> 0, failures |-> 0,
              submissions |-> 0]

Next ==
    \/ \E u \in Users : \E id \in RestaurantIds : \E type \in VoteTypes :
           used.votes < MaxVotes /\ handleVote(u, id, type) /\ UNCHANGED trace
    \/ \E u \in Users : \E id \in RestaurantIds :
           used.votes < MaxVotes /\ handleVoteOverall(u, id) /\ UNCHANGED trace
    \/ Steps(Users)

Spec == InitLoaded /\ [][Next]_vars

\* ---------------------------------------------------------------------------
\* SpecSerial: one client, of either build, votes one request at a time from an empty
\* ledger: a request is issued only when the previous handler has finished and its
\* snapshot has arrived.  The requests are recorded in `trace`.
Voter == "u1"

InitSerial ==
    /\ \E catB \in Categories :
           restaurants = ("A" :> Listing("BBQ")) @@ ("B" :> Listing(catB))
    /\ user_votes = EmptyMap
    /\ global_rankings = EmptyMap
    /\ \E l \in BOOLEAN : Settled([u \in Users |-> u = Voter /\ l])
    /\ userVotes = [u \in Users |-> EmptyVotes]
    /\ globalScores = [u \in Users |-> EmptyMap]
    /\ handlers = [u \in Users |-> << >>]
    /\ recat = << >>
    /\ \E b \in {"auth", "local"} : build = [u \in Users |-> IF u = Voter THEN b ELSE "auth"]
    /\ emitted = Zero
    /\ overallApplied = Zero
    /\ trace = << >>
    /\ votes0 = [u \in Users |-> EmptyVotes]
    /\ searchQuery = [u \in Users |-> << >>]
    /\ deletion = << >>
    /\ saving = << >>
    /\ submitted = {}
    /\ ipWindows = EmptyMap
    /\ lastCleanup = 0
    /\ now = 0
    /\ allowedAt = [ip \in Ips |-> << >>]
    /\ lastCheck = << >>
    /\ used = [votes |-> 0, errors |-> 0, recats |-> 0, loads |-> 0, failures |-> 0,
              submissions |-> 0]

\* The serial requests of the voter in the authenticated build, at most `max` of them.
SerialAuthVotes(max) ==
    \/ \E id \in RestaurantIds : \E type \in VoteTypes :
           /\ Quiet(Voter) /\ used.votes < max
           /\ handleVote(Voter, id, type) /\ Record(Voter, id, type)
    \/ \E id \in RestaurantIds :
           /\ Quiet(Voter) /\ used.votes < max
           /\ handleVoteOverall(Voter, id) /\ Record(Voter, id, "overall")

\* The requests of the voter in the local-first build, at most `max` of them.
SerialLocalVotes(max) ==
    \/ \E id \in RestaurantIds : \E type \in VoteTypes :
           /\ used.votes < max
           /\ handleVoteLocal(Voter, id, type) /\ Record(Voter, id, type)
    \/ \E id \in RestaurantIds :
           /\ used.votes < max
           /\ handleVoteOverallLocal(Voter, id) /\ Record(Voter, id, "overall")

SerialVotes(max) == SerialAuthVotes(max) \/ SerialLocalVotes(max)

NextSerial ==
    \/ SerialVotes(MaxSerialVotes)
    \/ Steps({Voter})
    \/ onRankingsSnapshot(Voter)

SpecSerial == InitSerial /\ [][NextSerial]_vars

\* ---------------------------------------------------------------------------
\* SpecToggle: as SpecSerial, from any ledger the client can hold: the initial state
\* draws the holders of the one category's two slots and the overall pick, as vote
\* documents (authenticated build) or as the stored ledger (local-first build), with
\* the tally those votes produced when they were cast.
VoteDoc(uid, id, category, voteType) ==
    [userId |-> uid, restaurantId |-> id, category |-> category, voteType |-> voteType]

DocsOf(uid, category, top, ru, pick) ==
    LET d1 == IF top = NULL THEN EmptyMap
              ELSE Put(EmptyMap, voteId(uid, category, "top"), VoteDoc(uid, top, category, "top"))
        d2 == IF ru = NULL THEN d1
              ELSE Put(d1, voteId(uid, category, "runnerUp"), VoteDoc(uid, ru, category, "runnerUp"))
    IN  IF pick = NULL THEN d2
        ELSE Put(d2, overallVoteId(uid), VoteDoc(uid, pick, NULL, "overall"))

LedgerOf(category, top, ru, pick) ==
    [categoryVotes |-> IF top = NULL /\ ru = NULL THEN EmptyMap
                       ELSE Put(EmptyMap, category, [topId |-> top, runnerUpId |-> ru]),
     overallTopPick |-> pick]

TallyOf(top, ru, pick) ==
    LET w(id) == (IF top = id THEN TopPoints ELSE 0) + (IF ru = id THEN RunnerUpPoints ELSE 0)
                 + (IF pick = id THEN OverallPoints ELSE 0)
    IN  [id \in {x \in RestaurantIds : w(x) # 0} |-> w(id)]

Holders == RestaurantIds \cup {NULL}

InitToggle ==
    /\ restaurants = SampleListings
    /\ Settled([u \in Users |-> u = Voter])
    /\ globalScores = [u \in Users |-> EmptyMap]
    /\ handlers = [u \in Users |-> << >>]
    /\ recat = << >>
    /\ \E b \in {"auth", "local"} : \E top \in Holders : \E ru \in Holders : \E pick \in Holders :
           /\ b = "local" => (top # ru \/ top = NULL)
           /\ build = [u \in Users |-> IF u = Voter THEN b ELSE "auth"]
           /\ user_votes = IF b = "auth" THEN DocsOf(Voter, "BBQ", top, ru, pick) ELSE EmptyMap
           /\ userVotes = [u \in Users |->
                  IF u = Voter THEN LedgerOf("BBQ", top, ru, pick) ELSE EmptyVotes]
           /\ global_rankings = TallyOf(top, ru, pick)
    /\ votes0 = userVotes
    /\ emitted = Zero
    /\ overallApplied = Zero
    /\ trace = << >>
    /\ searchQuery = [u \in Users |-> << >>]
    /\ deletion = << >>
    /\ saving = << >>
    /\ submitted = {}
    /\ ipWindows = EmptyMap
    /\ lastCleanup = 0
    /\ now = 0
    /\ allowedAt = [ip \in Ips |-> << >>]
    /\ lastCheck = << >>
    /\ used = [votes |-> 0, errors |-> 0, recats |-> 0, loads |-> 0, failures |-> 0,
              submissions |-> 0]

NextToggle ==
    \/ SerialVotes(MaxToggleVotes)
    \/ Steps({Voter})

SpecToggle == InitToggle /\ [][NextToggle]_vars

\* ---------------------------------------------------------------------------
\* SpecFail: the voter of the authenticated build votes one request at a time from any
\* ledger, and a write of a handler (vote document or tally push) may fail.
InitFail == InitToggle /\ build[Voter] = "auth"

NextFail ==
    \/ SerialAuthVotes(MaxToggleVotes)
    \/ Steps({Voter})
    \/ \E i \in 1..MaxInFlight : used.failures < MaxFailures /\ writeFails(Voter, i)
    \/ \E i \in 1..MaxInFlight : used.failures < MaxFailures /\ syncFails(Voter, i)

SpecFail == InitFail /\ [][NextFail]_vars

\* ---------------------------------------------------------------------------
\* SpecDegraded: as SpecFail, but only the pushes to the global tally fail, and the
\* voter's global_rankings listener delivers the snapshots.
NextDegraded ==
    \/ SerialAuthVotes(MaxToggleVotes)
    \/ Steps({Voter})
    \/ onRankingsSnapshot(Voter)
    \/ \E i \in 1..MaxInFlight : used.failures < MaxFailures /\ syncFails(Voter, i)

SpecDegraded == InitFail /\ [][NextDegraded]_vars

\* ---------------------------------------------------------------------------
\* SpecEquiv: the same sequence of requests is given to the authenticated build (client
\* u1, one request at a time) and to the local-first build (client u2, which repeats
\* each request of u1 before u1 makes the next).
AuthClient == "u1"
LocalClient == "u2"

\* The requests that client u has made, in order.
requestsOf(u) == SelectSeq(trace, LAMBDA r : r.user = u)

InitEquiv ==
    /\ \E catB \in Categories :
           restaurants = ("A" :> Listing("BBQ")) @@ ("B" :> Listing(catB))
    /\ user_votes = EmptyMap
    /\ global_rankings = EmptyMap
    /\ Settled([u \in Users |-> TRUE])
    /\ userVotes = [u \in Users |-> EmptyVotes]
    /\ globalScores = [u \in Users |-> EmptyMap]
    /\ handlers = [u \in Users |-> << >>]
    /\ recat = << >>
    /\ build = [u \in Users |-> IF u = AuthClient THEN "auth" ELSE "local"]
    /\ emitted = Zero
    /\ overallApplied = Zero
    /\ trace = << >>
    /\ votes0 = [u \in Users |-> EmptyVotes]
    /\ searchQuery = [u \in Users |-> << >>]
    /\ deletion = << >>
    /\ saving = << >>
    /\ submitted = {}
    /\ ipWindows = EmptyMap
    /\ lastCleanup = 0
    /\ now = 0
    /\ allowedAt = [ip \in Ips |-> << >>]
    /\ lastCheck = << >>
    /\ used = [votes |-> 0, errors |-> 0, recats |-> 0, loads |-> 0, failures |-> 0,
              submissions |-> 0]

\* The next request of the local-first client: the one the authenticated client made at
\* the same position, once that one has finished.
Repeats(id, type) ==
    LET k == Len(requestsOf(LocalClient)) + 1
    IN  /\ k <= Len(requestsOf(AuthClient))
        /\ Quiet(AuthClient)
        /\ requestsOf(AuthClient)[k].id = id
        /\ requestsOf(AuthClient)[k].type = type

NextEquiv ==
    \/ \E id \in RestaurantIds : \E type \in VoteTypes :
           /\ Quiet(AuthClient) /\ Len(requestsOf(AuthClient)) < MaxSerialVotes
           /\ Len(requestsOf(LocalClient)) = Len(requestsOf(AuthClient))
           /\ handleVote(AuthClient, id, type) /\ Record(AuthClient, id, type)
    \/ \E id \in RestaurantIds :
           /\ Quiet(AuthClient) /\ Len(requestsOf(AuthClient)) < MaxSerialVotes
           /\ Len(requestsOf(LocalClient)) = Len(requestsOf(AuthClient))
           /\ handleVoteOverall(AuthClient, id) /\ Record(AuthClient, id, "overall")
    \/ \E id \in RestaurantIds : \E type \in VoteTypes :
           /\ Repeats(id, type)
           /\ handleVoteLocal(LocalClient, id, type) /\ Record(LocalClient, id, type)
    \/ \E id \in RestaurantIds :
           /\ Repeats(id, "overall")
           /\ handleVoteOverallLocal(LocalClient, id) /\ Record(LocalClient, id, "overall")
    \/ Steps({AuthClient})

SpecEquiv == InitEquiv /\ [][NextEquiv]_vars

\* ---------------------------------------------------------------------------
\* SpecLive: the clients load and reload the saved listings, their global_rankings
\* listeners emit or fail, and the voter votes one request at a time.

NextLive ==
    \/ \E u \in Users : used.loads < MaxLoads /\ loadFromDb(u)
    \/ \E u \in Users : onRankingsSnapshot(u)
    \/ \E u \in Users : used.errors < MaxErrors /\ onRankingsError(u)
    \/ SerialAuthVotes(MaxToggleVotes)
    \/ Steps({Voter})

SpecLive == Init /\ [][NextLive]_vars

\* ---------------------------------------------------------------------------
\* SpecAdmin: the live voter votes one request at a time while the admin recategorizes a
\* listing (query, then batch commit) and the voter's client reloads the listings.
InitAdmin ==
    /\ restaurants = SampleListings
    /\ user_votes = EmptyMap
    /\ global_rankings = EmptyMap
    /\ Settled([u \in Users |-> u = Voter])
    /\ userVotes = [u \in Users |-> EmptyVotes]
    /\ globalScores = [u \in Users |-> EmptyMap]
    /\ handlers = [u \in Users |-> << >>]
    /\ recat = << >>
    /\ build = [u \in Users |-> "auth"]
    /\ emitted = Zero
    /\ overallApplied = Zero
    /\ trace = << >>
    /\ votes0 = [u \in Users |-> EmptyVotes]
    /\ searchQuery = [u \in Users |-> << >>]
    /\ deletion = << >>
    /\ saving = << >>
    /\ submitted = {}
    /\ ipWindows = EmptyMap
    /\ lastCleanup = 0
    /\ now = 0
    /\ allowedAt = [ip \in Ips |-> << >>]
    /\ lastCheck = << >>
    /\ used = [votes |-> 0, errors |-> 0, recats |-> 0, loads |-> 0, failures |-> 0,
              submissions |-> 0]

NextAdmin ==
    \/ \E id \in RestaurantIds : \E type \in VoteTypes :
           /\ Quiet(Voter) /\ used.votes < MaxAdminVotes
           /\ handleVote(Voter, id, type) /\ UNCHANGED trace
    \/ \E id \in RestaurantIds :
           /\ Quiet(Voter) /\ used.votes < MaxAdminVotes
           /\ handleVoteOverall(Voter, id) /\ UNCHANGED trace
    \/ Steps({Voter})
    \/ onRankingsSnapshot(Voter)
    \/ \E id \in RestaurantIds : \E newCategory \in Categories :
           used.recats < MaxRecats /\ updateRestaurantCategory(id, newCategory)
    \/ batchCommit
    \/ used.loads < MaxReloads /\ loadFromDb(Voter)

SpecAdmin == InitAdmin /\ [][NextAdmin]_vars

\* ---------------------------------------------------------------------------
\* SpecDelete: the live voter votes while the admin deletes listings (query, then batch
\* commit, as handleCleanup does for each listing) and the voter's client reloads.
NextDelete ==
    \/ \E id \in RestaurantIds : \E type \in VoteTypes :
           /\ used.votes < MaxAdminVotes
           /\ handleVote(Voter, id, type) /\ UNCHANGED trace
    \/ \E id \in RestaurantIds :
           /\ used.votes < MaxAdminVotes
           /\ handleVoteOverall(Voter, id) /\ UNCHANGED trace
    \/ Steps({Voter})
    \/ \E id \in RestaurantIds : deleteRestaurant(id)
    \/ deleteCommit
    \/ used.loads < MaxReloads /\ loadFromDb(Voter)

SpecDelete == InitAdmin /\ [][NextDelete]_vars

\* ---------------------------------------------------------------------------
\* The ranking views.  Text is a sequence of one-character strings.

\* The order of `data.restaurants`: getSavedRestaurants pushes the documents in the order
\* getDocs returns them, which is the order of their ids.
ListedIds == << "A", "B", "C", "D", "E", "F", "G", "H", "I", "J", "K" >>

\* data.restaurants of client u, as the array of ids.
restaurantList(u) ==
    LET Test(id) == id \in DOMAIN data[u].restaurants
    IN  SelectSeq(ListedIds, Test)

\* The characters of the category names.
categoryText(category) ==
    IF category = "BBQ" THEN << "B", "B", "Q" >> ELSE << "T", "a", "c", "o", "s" >>

\* `r.name` of the listings.
nameText(id) ==
    CASE id \in {"A", "D", "G", "J"} -> << "A", "l", " ", id >>
      [] id \in {"B", "E", "H", "K"} -> << "B", "o", " ", id >>
      [] OTHER -> << "Q", " ", id >>

\* `r.address` of the listings (`r.googlePlaceType` is absent: `|| ''`).
addressText == << "N", "M" >>

\* String.prototype.toLowerCase on the characters in use.
lowerChar(c) ==
    CASE c = "A" -> "a" [] c = "B" -> "b" [] c = "C" -> "c" [] c = "D" -> "d"
      [] c = "E" -> "e" [] c = "F" -> "f" [] c = "G" -> "g" [] c = "H" -> "h"
      [] c = "I" -> "i" [] c = "J" -> "j" [] c = "K" -> "k" [] c = "M" -> "m"
      [] c = "N" -> "n" [] c = "Q" -> "q" [] c = "T" -> "t" [] OTHER -> c

toLowerCase(text) == [i \in DOMAIN text |-> lowerChar(text[i])]

\* String.prototype.includes: term occurs in text as a substring.
includes(text, term) ==
    \E i \in 0..(Len(text) - Len(term)) :
        \A j \in 1..Len(term) : text[i + j] = term[j]

\* `query.split(/\s+/).filter(t => t.length > 0)` of the lowered, trimmed query: the
\* maximal runs of non-space characters, in order.
RECURSIVE terms(_)
terms(text) ==
    IF text = << >> THEN << >>
    ELSE IF Head(text) = " " THEN terms(Tail(text))
    ELSE LET rest == terms(Tail(text))
         IN  IF Len(text) = 1 \/ text[2] = " "
             THEN << << Head(text) >> >> \o rest
             ELSE << << Head(text) >> \o Head(rest) >> \o Tail(rest)

\* `${r.name} ${r.category} ${r.googlePlaceType || ''} ${r.address}`.toLowerCase()
searchable(u, id) ==
    toLowerCase(nameText(id) \o << " " >> \o categoryText(data[u].restaurants[id].category)
                \o << " " >> \o << " " >> \o addressText)

\* The instant local filter: every term of the query occurs in the searchable string.
matches(u, id) ==
    LET ts == terms(toLowerCase(searchQuery[u]))
    IN  \A k \in DOMAIN ts : includes(searchable(u, id), ts[k])

\* Array.prototype.sort((a, b) => getRestaurantPoints(b) - getRestaurantPoints(a)): the
\* sort is stable, an element goes after every element whose points are not lower.
RECURSIVE insertByPoints(_, _, _)
insertByPoints(u, id, sorted) ==
    IF sorted = << >> THEN << id >>
    ELSE IF getRestaurantPoints(u, Head(sorted)) >= getRestaurantPoints(u, id)
         THEN << Head(sorted) >> \o insertByPoints(u, id, Tail(sorted))
         ELSE << id >> \o sorted

RECURSIVE sortByPoints(_, _)
sortByPoints(u, list) ==
    IF list = << >> THEN << >>
    ELSE insertByPoints(u, list[Len(list)], sortByPoints(u, SubSeq(list, 1, Len(list) - 1)))

\* groupedRestaurants that groups every listing, matching or not (a mutant of
\* groupedRestaurants).
groupedRestaurantsUnfiltered(u) ==
    LET kept == restaurantList(u)
        cats == {data[u].restaurants[kept[i]].category : i \in DOMAIN kept}
    IN  [c \in cats |->
            sortByPoints(u, SelectSeq(kept, LAMBDA id : data[u].restaurants[id].category = c))]

\* groupedRestaurants that leaves every bucket in push order (a mutant of
\* groupedRestaurants).
groupedRestaurantsUnsorted(u) ==
    LET kept == SelectSeq(restaurantList(u), LAMBDA id : matches(u, id))
        cats == {data[u].restaurants[kept[i]].category : i \in DOMAIN kept}
    IN  [c \in cats |-> SelectSeq(kept, LAMBDA id : data[u].restaurants[id].category = c)]

\* groupedRestaurants of client u: category -> the matching listings of the category,
\* pushed in list order, then sorted.
groupedRestaurants(u) ==
    LET kept == SelectSeq(restaurantList(u), LAMBDA id : matches(u, id))
        cats == {data[u].restaurants[kept[i]].category : i \in DOMAIN kept}
    IN  [c \in cats |->
            sortByPoints(u, SelectSeq(kept, LAMBDA id : data[u].restaurants[id].category = c))]

\* `.slice(0, 10)` of topRestaurants and `.slice(0, 5)` of the Best This Week widget.
TopListSize == 10
WidgetSize == 5

slice(list, n) == SubSeq(list, 1, IF Len(list) < n THEN Len(list) ELSE n)

\* topRestaurants that slices before it sorts (a mutant of topRestaurants).
topRestaurantsSliceFirst(u) == sortByPoints(u, slice(restaurantList(u), TopListSize))

\* topRestaurants of client u.
topRestaurants(u) == slice(sortByPoints(u, restaurantList(u)), TopListSize)

\* The Best This Week widget of client u: rendered only with an empty search box.
bestThisWeek(u) ==
    IF Len(topRestaurants(u)) > 0 /\ searchQuery[u] = << >>
    THEN slice(topRestaurants(u), WidgetSize)
    ELSE << >>

\* The texts typed into the search box.
Queries ==
    { << >>, << " " >>, << "B", "b" >>, << "a", "l" >>, << "t", "a", " ", "n", "m" >>,
      << "q", " " >>, << "z" >> }

\* `onChange={(e) => setSearchQuery(e.target.value)}`
setSearchQuery(u, q) ==
    /\ q # searchQuery[u]
    /\ searchQuery' = [searchQuery EXCEPT ![u] = q]
    /\ UNCHANGED << restaurants, user_votes, global_rankings, data, userVotes, globalScores,
                    isGlobalLive, rankingsSub, handlers, recat, build, emitted, overallApplied,
                    lastSignal, trace, votes0, used, deletion, saving, submitted,
                    ipWindows, lastCleanup, now, allowedAt, lastCheck >>

\* ---------------------------------------------------------------------------
\* SpecRank: the ranking views of the voter's client over eleven listings of two
\* categories.  The initial state draws the tallies other users have pushed (200 for one
\* listing, 100 for another) and the voter's top vote and overall pick; the voter types
\* into the search box and the global_rankings listener delivers the tallies.
RankedIds == {ListedIds[i] : i \in DOMAIN ListedIds}

RankListings ==
    [id \in RankedIds |->
        Listing(IF id \in {"A", "B", "D", "F", "H", "J"} THEN "BBQ" ELSE "Tacos")]

RankTally(hi, mid, top, pick) ==
    LET w(id) == (IF id = hi THEN 200 ELSE 0) + (IF id = mid THEN 100 ELSE 0)
                 + OrZero(TallyOf(top, NULL, pick), id)
    IN  [id \in {x \in RankedIds : w(x) # 0} |-> w(id)]

InitRank ==
    /\ restaurants = RankListings
    /\ Settled([u \in Users |-> u = Voter])
    /\ globalScores = [u \in Users |-> EmptyMap]
    /\ handlers = [u \in Users |-> << >>]
    /\ recat = << >>
    /\ build = [u \in Users |-> "auth"]
    /\ \E hi \in RankedIds \cup {NULL} : \E mid \in RankedIds \cup {NULL} :
       \E top \in Holders : \E pick \in Holders :
           /\ user_votes = DocsOf(Voter, "BBQ", top, NULL, pick)
           /\ userVotes = [u \in Users |->
                  IF u = Voter THEN LedgerOf("BBQ", top, NULL, pick) ELSE EmptyVotes]
           /\ global_rankings = RankTally(hi, mid, top, pick)
    /\ votes0 = userVotes
    /\ emitted = Zero
    /\ overallApplied = Zero
    /\ trace = << >>
    /\ searchQuery = [u \in Users |-> << >>]
    /\ deletion = << >>
    /\ saving = << >>
    /\ submitted = {}
    /\ ipWindows = EmptyMap
    /\ lastCleanup = 0
    /\ now = 0
    /\ allowedAt = [ip \in Ips |-> << >>]
    /\ lastCheck = << >>
    /\ used = [votes |-> 0, errors |-> 0, recats |-> 0, loads |-> 0, failures |-> 0,
              submissions |-> 0]

NextRank ==
    \/ \E q \in Queries : setSearchQuery(Voter, q)
    \/ onRankingsSnapshot(Voter)

SpecRank == InitRank /\ [][NextRank]_vars

\* ---------------------------------------------------------------------------
\* Hydration and saving of listings.

\* A character that encodeURIComponent rejects (a lone surrogate): it throws a URIError.
LoneSurrogate == "\\uD800"

\* String.prototype.trim.
RECURSIVE trimStart(_)
trimStart(text) ==
    IF text # << >> /\ Head(text) = " " THEN trimStart(Tail(text)) ELSE text

RECURSIVE trimEnd(_)
trimEnd(text) ==
    IF text # << >> /\ text[Len(text)] = " " THEN trimEnd(SubSeq(text, 1, Len(text) - 1))
    ELSE text

trim(text) == trimEnd(trimStart(text))

\* The bytes that the 24 characters kept of the base64 text encode.
IdBytes == 18

\* The values Math.random().toString(36).substring(2, 15) can take (two of them).
RandomIds == { << "r", "1" >>, << "r", "2" >> }

\* `${name}-${location}`.toLowerCase().trim()
idBase(name, location) == trim(toLowerCase(name \o << "-" >> \o location))

\* The ids that safeBtoa(idBase).replace(/[^a-zA-Z0-9]/g, '').slice(0, 24) can yield.
\* btoa encodes three bytes as four characters, one-to-one, so the 24 characters kept
\* stand for the first 18 bytes (the lower-case ASCII texts used here give no '+' or '/',
\* and a removed '=' padding loses nothing): the id is written as those bytes.  When
\* encodeURIComponent throws, safeBtoa's catch returns a random string.
deterministicId(name, location) ==
    LET text == idBase(name, location)
    IN  IF \E i \in DOMAIN text : text[i] = LoneSurrogate
        THEN RandomIds
        ELSE { SubSeq(text, 1, IF Len(text) < IdBytes THEN Len(text) ELSE IdBytes) }

\* JavaScript `a || b` on numbers: 0 is falsy (the hydrate handler sets every field, none
\* is undefined).
orElse(a, b) == IF a = 0 THEN b ELSE a

\* The inputs of the model: display names, request locations, mapped categories and
\* ratings of the places (`place.rating || 0`).
Names == { << "B", "o" >>, << "b", "o" >>, << "A", "n" >> }
Locations == { << "N", "M" >>, << "N", LoneSurrogate >> }
Ratings == { 0, 4 }

\* The listing that the hydrate handler returns for a place, with its id drawn and the
\* clock reading `time`.
hydrated(id, name, category, rating, time) ==
    [id |-> id, name |-> name, category |-> category, rating |-> rating,
     basePoints |-> DefaultBasePoints, submittedAt |-> time]

\* The fields of a stored listing.
stored(restaurant) ==
    [name |-> restaurant.name, category |-> restaurant.category, rating |-> restaurant.rating,
     basePoints |-> restaurant.basePoints, submittedAt |-> restaurant.submittedAt]

\* saveRestaurant's `merged`: the info fields of the incoming listing, the stats of the
\* existing document where they are truthy.
merged(existing, restaurant) ==
    [name |-> restaurant.name,
     category |-> restaurant.category,
     rating |-> orElse(existing.rating, restaurant.rating),
     basePoints |-> orElse(existing.basePoints, restaurant.basePoints),
     submittedAt |-> orElse(existing.submittedAt, restaurant.submittedAt)]

\* The hydrate handler maps a place to a listing and the client calls
\* saveRestaurant(restaurant), up to `await getDoc(restaurantRef)`.
saveRestaurant(name, location, category, rating) ==
    /\ \E id \in deterministicId(name, location) :
           LET restaurant == hydrated(id, name, category, rating, used.submissions + 1)
           IN  /\ saving' = Append(saving,
                      [restaurant |-> restaurant,
                       location |-> location,
                       exists |-> id \in DOMAIN restaurants,
                       existing |-> IF id \in DOMAIN restaurants THEN restaurants[id]
                                    ELSE NULL])
               /\ submitted' = submitted \cup {[name |-> name, location |-> location, id |-> id]}
    /\ used' = [used EXCEPT !.submissions = @ + 1]
    /\ UNCHANGED << restaurants, user_votes, global_rankings, data, userVotes, globalScores,
                    isGlobalLive, rankingsSub, handlers, recat, build, emitted, overallApplied,
                    lastSignal, trace, votes0, searchQuery, deletion,
                    ipWindows, lastCleanup, now, allowedAt, lastCheck >>

\* `await setDoc(restaurantRef, merged | cleaned, { merge: true })` of the i-th
\* saveRestaurant in flight: every field written replaces the stored one.
saveCommit(i) ==
    /\ i \in DOMAIN saving
    /\ LET s == saving[i]
       IN  restaurants' = Put(restaurants, s.restaurant.id,
               IF s.exists THEN merged(s.existing, s.restaurant) ELSE stored(s.restaurant))
    /\ saving' = SubSeq(saving, 1, i - 1) \o SubSeq(saving, i + 1, Len(saving))
    /\ UNCHANGED << user_votes, global_rankings, data, userVotes, globalScores, isGlobalLive,
                    rankingsSub, handlers, recat, build, emitted, overallApplied, lastSignal,
                    trace, votes0, searchQuery, deletion, submitted, used,
                    ipWindows, lastCleanup, now, allowedAt, lastCheck >>

\* The base points an admin types in the dashboard: `parseInt(e.target.value) || 0`.
BasePointsInputs == { 0, 250 }

\* handleSaveCategory with pointsChanged: updateRestaurantPoints(id, basePoints), a merge
\* write of the one field.
updateRestaurantPoints(id, basePoints) ==
    /\ id \in DOMAIN restaurants
    /\ basePoints # restaurants[id].basePoints
    /\ restaurants' = [restaurants EXCEPT ![id].basePoints = basePoints]
    /\ UNCHANGED << user_votes, global_rankings, data, userVotes, globalScores, isGlobalLive,
                    rankingsSub, handlers, recat, build, emitted, overallApplied, lastSignal,
                    trace, votes0, searchQuery, deletion, saving, submitted, used,
                    ipWindows, lastCleanup, now, allowedAt, lastCheck >>

\* SpecSave: listings are hydrated and saved, the saves of a batch in flight together,
\* and the admin edits the base points of stored listings.
InitSave ==
    /\ Init
    /\ restaurants = EmptyMap

NextSave ==
    \/ \E name \in Names : \E location \in Locations : \E category \in Categories :
       \E rating \in Ratings :
           /\ used.submissions < MaxSubmissions
           /\ Len(saving) < MaxSaving
           /\ saveRestaurant(name, location, category, rating)
    \/ \E i \in 1..MaxSaving : saveCommit(i)
    \/ \E id \in DOMAIN restaurants : \E basePoints \in BasePointsInputs :
           updateRestaurantPoints(id, basePoints)

SpecSave == InitSave /\ [][NextSave]_vars

\* ---------------------------------------------------------------------------
\* The rate limiter of the serverless handlers.  Time is counted in ticks; maxRequests,
\* windowMs and CLEANUP_INTERVAL (five windows of the default length) are scaled down.
maxRequests == 2
windowMs == 3
CLEANUP_INTERVAL == 5 * windowMs

\* cleanup(): every CLEANUP_INTERVAL, the entries whose window is over are deleted.
cleanup(windows) ==
    IF now - lastCleanup < CLEANUP_INTERVAL THEN windows
    ELSE Drop(windows, {ip \in DOMAIN windows : now > windows[ip].resetAt})

\* lastCleanup after cleanup().
cleanupTime == IF now - lastCleanup < CLEANUP_INTERVAL THEN lastCleanup ELSE now

\* The body of checkRateLimit after cleanup(): the next Map and the returned object.
rateLimitResult(windows, ip) ==
    IF ip \notin DOMAIN windows \/ now > windows[ip].resetAt
    THEN [windows |-> Put(windows, ip, [count |-> 1, resetAt |-> now + windowMs]),
          allowed |-> TRUE, remaining |-> maxRequests - 1, retryAfterMs |-> 0]
    ELSE IF windows[ip].count >= maxRequests
    THEN [windows |-> windows,
          allowed |-> FALSE, remaining |-> 0,
          retryAfterMs |-> windows[ip].resetAt - now]
    ELSE [windows |-> [windows EXCEPT ![ip].count = @ + 1],
          allowed |-> TRUE, remaining |-> maxRequests - (windows[ip].count + 1),
          retryAfterMs |-> 0]

\* A request from ip reaches a handler: applyRateLimit calls checkRateLimit(ip,
\* maxRequests, windowMs).
checkRateLimit(ip) ==
    LET r == rateLimitResult(cleanup(ipWindows), ip)
    IN  /\ ipWindows' = r.windows
        /\ lastCleanup' = cleanupTime
        /\ allowedAt' = IF r.allowed THEN [allowedAt EXCEPT ![ip] = Append(@, now)]
                        ELSE allowedAt
        /\ lastCheck' = << [ip |-> ip, allowed |-> r.allowed, remaining |-> r.remaining,
                            retryAfterMs |-> r.retryAfterMs,
                            counted |-> IF ip \in DOMAIN ipWindows THEN ipWindows[ip].count
                                        ELSE 0] >>
        /\ UNCHANGED << restaurants, user_votes, global_rankings, data, userVotes, globalScores,
                        isGlobalLive, rankingsSub, handlers, recat, build, emitted,
                        overallApplied, lastSignal, trace, votes0, searchQuery, used, deletion,
                        saving, submitted, now >>

\* Time passes.  The history keeps the allowed requests of the last windowMs ticks, the
\* ones an interval of length windowMs that ends now can hold.
Tick ==
    /\ now < MaxNow
    /\ now' = now + 1
    /\ allowedAt' = [ip \in Ips |-> SelectSeq(allowedAt[ip], LAMBDA t : t > now + 1 - windowMs)]
    /\ UNCHANGED << restaurants, user_votes, global_rankings, data, userVotes, globalScores,
                    isGlobalLive, rankingsSub, handlers, recat, build, emitted, overallApplied,
                    lastSignal, trace, votes0, searchQuery, used, deletion, saving, submitted,
                    ipWindows, lastCleanup, lastCheck >>

\* SpecRate: requests arrive from the addresses while time passes; an address makes at
\* most MaxBurst requests within one tick.
NextRate ==
    \/ \E ip \in Ips :
           /\ Len(SelectSeq(allowedAt[ip], LAMBDA t : t = now)) < MaxBurst
           /\ checkRateLimit(ip)
    \/ Tick

SpecRate == Init /\ [][NextRate]_vars

\* ---------------------------------------------------------------------------
\* What a ledger holds for a restaurant.
isTop(votes, id) == \E c \in DOMAIN votes.categoryVotes : votes.categoryVotes[c].topId = id
isRunnerUp(votes, id) == \E c \in DOMAIN votes.categoryVotes : votes.categoryVotes[c].runnerUpId = id
isOverallPick(votes, id) == votes.overallTopPick = id

Indicator(b) == IF b THEN 1 ELSE 0

\* C1 - Delta conservation: after any sequence of vote transitions performed one at a
\* time by one user of the authenticated build from an empty ledger, the deltas emitted
\* for a restaurant sum to 100 if it is a top choice + 25 if it is a runner-up + 500 if it
\* is the overall pick of the final ledger.
C1_DeltaConservation ==
    \A u \in Users :
        (build[u] = "auth" /\ votes0[u] = EmptyVotes /\ Quiet(u)) =>
            \A id \in RestaurantIds :
                emitted[u][id] = TopPoints * Indicator(isTop(userVotes[u], id))
                                 + RunnerUpPoints * Indicator(isRunnerUp(userVotes[u], id))
                                 + OverallPoints * Indicator(isOverallPick(userVotes[u], id))

\* A displaced holder and a slot move have happened: top A, runner-up B, then top B.
C1_Witness ==
    /\ build[Voter] = "auth" /\ Quiet(Voter)
    /\ trace = << Request(Voter, "A", "top"), Request(Voter, "B", "runnerUp"),
                  Request(Voter, "B", "top") >>
    /\ restaurants["B"].category = "BBQ"
    /\ emitted[Voter]["A"] = 0 /\ emitted[Voter]["B"] = TopPoints

\* The sum of the values of a finite map.
RECURSIVE Sum(_)
Sum(f) ==
    IF DOMAIN f = {} THEN 0
    ELSE LET k == CHOOSE x \in DOMAIN f : TRUE IN f[k] + Sum(Drop(f, {k}))

\* The weight of an active vote: 100 top, 25 runner-up, 500 overall pick.
voteWeight(vote) ==
    IF vote.voteType = "overall" THEN OverallPoints ELSE weight(vote.voteType)

\* The sum over all users of the weights of their active votes for id.
activeWeight(id) ==
    Sum([d \in {x \in DOMAIN user_votes : user_votes[x].restaurantId = id} |->
            voteWeight(user_votes[d])])

\* C2 - Global tally correctness: once every handler of every user has finished and every
\* push has been applied, the global tally of every restaurant equals the sum over all
\* users of the weights of their currently active votes for it.
C2_TallyCorrect ==
    (\A u \in Users : Quiet(u)) =>
        \A id \in RestaurantIds : OrZero(global_rankings, id) = activeWeight(id)

\* Every slot of the category votes and the overall pick of two ledgers agree.
SameLedger(v1, v2) ==
    /\ \A c \in Categories : categoryVote(v1, c) = categoryVote(v2, c)
    /\ v1.overallTopPick = v2.overallTopPick

\* The voter has made exactly two requests, both (category of id, id, 'top'), and both
\* have finished.
ToggledTwice(id) ==
    /\ trace = << Request(Voter, id, "top"), Request(Voter, id, "top") >>
    /\ Quiet(Voter)

\* C3 - Toggle idempotence: from every ledger, two consecutive votes (category, id, 'top')
\* return the ledger to the state before the first call and the deltas emitted for id by
\* the two calls sum to 0.
C3_ToggleIdempotence ==
    \A id \in RestaurantIds :
        ToggledTwice(id) =>
            /\ SameLedger(userVotes[Voter], votes0[Voter])
            /\ emitted[Voter][id] = 0

\* C4 - Mutual exclusion: in every reachable ledger, for every category the top id
\* differs from the runner-up id unless both are null.
C4_MutualExclusion ==
    \A u \in Users : \A c \in Categories :
        LET current == categoryVote(userVotes[u], c)
        IN  current.topId = current.runnerUpId => current.topId = NULL

\* The restaurants that the vote log holds as the overall pick of user u.
overallPicks(u) ==
    {user_votes[d].restaurantId :
        d \in {x \in DOMAIN user_votes :
                  user_votes[x].userId = u /\ user_votes[x].voteType = "overall"}}

\* C5 - Single overall pick: at most one restaurant is a user's overall pick, in the vote
\* log and in the ledger rebuilt from it, and the write that selects a new overall pick
\* leaves the selected restaurant as the only one.
C5_SingleOverallPick ==
    /\ [](\A u \in Users :
            /\ Cardinality(overallPicks(u)) <= 1
            /\ Cardinality({id \in RestaurantIds : isOverallPick(votesFromSnapshot(u), id)}) <= 1)
    /\ [][\A u \in Users : \A i \in 1..MaxInFlight :
            (setDoc(u, i) /\ NextCall(u, i).voteType = "overall") =>
                overallPicks(u)' = {NextCall(u, i).id}]_vars

\* u1's overall pick has moved: two requests, nothing left but the pick B and its 500.
C5_Witness ==
    /\ used.votes = 2
    /\ \A u \in Users : Quiet(u)
    /\ DOMAIN user_votes = {overallVoteId("u1")}
    /\ userVotes["u1"].overallTopPick = "B"
    /\ emitted["u1"]["A"] = 0 /\ emitted["u1"]["B"] = OverallPoints

\* The client displays the latest tally: its listener, if alive, has delivered it.
Displayed(u) == rankingsSub[u] = "emitted" => globalScores[u] = scoresFromSnapshot

\* C6 - Scenario totals: A and B in one category, base 100, nothing else: once the user's
\* vote Top on A is done and displayed, A's total is 200; after Runner-Up on B, A's is 200
\* and B's 125; after Top on B, A's is 100 and B's 200.
C6_ScenarioTotals ==
    ( /\ build[Voter] = "auth" /\ restaurants["B"].category = "BBQ"
      /\ Quiet(Voter) /\ Displayed(Voter) ) =>
        /\ trace = << Request(Voter, "A", "top") >> =>
               getRestaurantPoints(Voter, "A") = 200
        /\ trace = << Request(Voter, "A", "top"), Request(Voter, "B", "runnerUp") >> =>
               getRestaurantPoints(Voter, "A") = 200 /\ getRestaurantPoints(Voter, "B") = 125
        /\ trace = << Request(Voter, "A", "top"), Request(Voter, "B", "runnerUp"),
                      Request(Voter, "B", "top") >> =>
               getRestaurantPoints(Voter, "A") = 100 /\ getRestaurantPoints(Voter, "B") = 200

\* What the overall-pick votes of user u have contributed to the tallies of all restaurants.
overallContribution(u) == Sum(overallApplied[u])

\* C7 - Overall pick move: when the overall pick moves from A to B, A loses exactly 500
\* and B gains exactly 500, and in every state the user's overall-pick contribution
\* summed over all restaurants is 0 or 500.
C7_OverallMove ==
    /\ \A u \in Users : overallContribution(u) \in {0, OverallPoints}
    /\ ( /\ trace = << Request(Voter, "A", "overall"), Request(Voter, "B", "overall") >>
         /\ Quiet(Voter) /\ isGlobalLive[Voter] )
       => overallApplied[Voter]["A"] = 0 /\ overallApplied[Voter]["B"] = OverallPoints

\* The top votes on the listing being recategorized that were cast under its old category.
staleTopVotes ==
    {d \in DOMAIN user_votes :
        /\ user_votes[d].restaurantId = recat[1].id
        /\ user_votes[d].category = recat[1].oldCategory
        /\ user_votes[d].voteType = "top"}

\* The listings whose top vote, held in the ledger of client u, is gone from the vote log
\* while nothing else of the ledger changed and no handler of u is in flight.
purgedTop(u) ==
    {id \in DOMAIN data[u].restaurants :
        LET category == data[u].restaurants[id].category
            current == categoryVote(userVotes[u], category)
        IN  /\ handlers[u] = << >>
            /\ current.topId = id
            /\ categoryVote(votesFromSnapshot(u), category) = [current EXCEPT !.topId = NULL]
            /\ votesFromSnapshot(u).overallTopPick = userVotes[u].overallTopPick}

\* C8 - Recategorization purge: the commit that changes X's category from C1 to C2
\* removes every top vote held on X under C1, and the snapshot that delivers the purge
\* to the voter lowers X's displayed total by exactly 100.
C8_RecatPurge ==
    [][ /\ batchCommit => \A d \in staleTopVotes : d \notin DOMAIN user_votes'
        /\ \A u \in Users : \A id \in RestaurantIds :
               (onUserVotesSnapshot(u) /\ id \in purgedTop(u)) =>
                   getRestaurantPoints(u, id)' = getRestaurantPoints(u, id) - 100 ]_vars

\* C9 - computeTotal formula: the total of every loaded restaurant is its base score +
\* the snapshot's value for its id (0 without an entry) + 100 if it is top in its own
\* category + 25 if runner-up in its own category + 500 if it is the overall pick.
C9_ComputeTotal ==
    \A u \in Users : \A id \in DOMAIN data[u].restaurants :
        LET own == data[u].restaurants[id].category
            snapshot == IF id \in DOMAIN globalScores[u] THEN globalScores[u][id] ELSE 0
            votes == userVotes[u].categoryVotes
            local == 100 * Indicator(own \in DOMAIN votes /\ votes[own].topId = id)
                     + 25 * Indicator(own \in DOMAIN votes /\ votes[own].runnerUpId = id)
                     + 500 * Indicator(userVotes[u].overallTopPick = id)
        IN  getRestaurantPoints(u, id) = data[u].restaurants[id].basePoints + snapshot + local

\* The voter's reloaded client lists A under Tacos while its ledger holds A as top of BBQ
\* and B as runner-up of BBQ, and the snapshot has an entry for A: A's total is 200.
C9_Witness ==
    /\ data[Voter].restaurants["A"].category = "Tacos"
    /\ categoryVote(userVotes[Voter], "BBQ") = [topId |-> "A", runnerUpId |-> "B"]
    /\ OrZero(globalScores[Voter], "A") = 100
    /\ getRestaurantPoints(Voter, "A") = 200
    /\ getRestaurantPoints(Voter, "B") = 125

\* C10 - Liveness flag: a client is live only if the subscription opened for its
\* currently loaded set of restaurants has emitted.
C10_LiveOnlyAfterEmission ==
    \A u \in Users : isGlobalLive[u] => rankingsSub[u] = "emitted"

\* The elements of a list.
Range(list) == {list[i] : i \in DOMAIN list}

\* The bucket of a category in a grouped view (empty when there is none).
bucket(groups, c) == IF c \in DOMAIN groups THEN groups[c] ELSE << >>

\* A listing excluded by the filter is in no bucket, every bucket has exactly as many
\* entries as the category has matching listings, and no bucket is empty.
FilterBeforeGrouping(u) ==
    LET groups == groupedRestaurants(u)
        matching == {id \in DOMAIN data[u].restaurants : matches(u, id)}
    IN  /\ \A c \in Categories : Range(bucket(groups, c)) \subseteq matching
        /\ \A c \in Categories :
               Len(bucket(groups, c)) =
                   Cardinality({id \in matching : data[u].restaurants[id].category = c})
        /\ \A c \in DOMAIN groups : groups[c] # << >>

\* C11 (as stated) - Ranking under filter: a restaurant excluded by the search filter is
\* in no category bucket, does not count toward a bucket's size, and is in no top-N
\* list (topRestaurants); the filter is applied before grouping.
C11_ExcludedNowhere ==
    \A u \in Users :
        /\ FilterBeforeGrouping(u)
        /\ LET top == Range(topRestaurants(u))
           IN  \A id \in DOMAIN data[u].restaurants : ~matches(u, id) => id \notin top

\* C11 (amended) - Ranking under filter: a restaurant excluded by the search filter is in
\* no category bucket, does not count toward a bucket's size, and is in no rendered
\* top-N list: topRestaurants is computed from the unfiltered set, and the Best This Week
\* widget that shows it is rendered only while the search box is empty; the filter is
\* applied before grouping.
C11_RankingUnderFilter ==
    \A u \in Users :
        /\ FilterBeforeGrouping(u)
        /\ LET best == Range(bestThisWeek(u))
           IN  \A id \in DOMAIN data[u].restaurants : ~matches(u, id) => id \notin best

\* The voter searches "Bb": the six BBQ listings match, and the excluded Tacos listing E
\* has the highest total of all.
C11_Witness ==
    /\ searchQuery[Voter] = << "B", "b" >>
    /\ DOMAIN groupedRestaurants(Voter) = {"BBQ"}
    /\ Len(groupedRestaurants(Voter)["BBQ"]) = 6
    /\ ~matches(Voter, "E")
    /\ topRestaurants(Voter)[1] = "E"

\* The position of a listing in `data.restaurants` of client u (its insertion order).
position(u, id) == CHOOSE i \in DOMAIN restaurantList(u) : restaurantList(u)[i] = id

\* A list of listings of client u is in descending order of total, equal totals in
\* insertion order.
RankedStably(u, list) ==
    \A i \in 1 .. Len(list) - 1 :
        LET before == getRestaurantPoints(u, list[i])
            after == getRestaurantPoints(u, list[i + 1])
        IN  \/ before > after
            \/ /\ before = after
               /\ position(u, list[i]) < position(u, list[i + 1])

\* C12 - Per-category ordering: each category bucket contains exactly the filtered
\* restaurants with that category, each once, in descending order of total; restaurants
\* with equal totals keep their insertion order.
C12_PerCategoryOrdering ==
    \A u \in Users :
        LET groups == groupedRestaurants(u)
            matching == {id \in DOMAIN data[u].restaurants : matches(u, id)}
        IN  /\ DOMAIN groups = {data[u].restaurants[id].category : id \in matching}
            /\ \A c \in DOMAIN groups :
                   /\ Range(groups[c]) =
                          {id \in matching : data[u].restaurants[id].category = c}
                   /\ Len(groups[c]) = Cardinality(Range(groups[c]))
                   /\ RankedStably(u, groups[c])

\* With an empty search box the BBQ bucket starts with the voter's top choice B (tally 100
\* and boost 100) and J (tally 200), tied at 300 in insertion order, followed by A, D, F
\* and H, tied at 100 in insertion order.
C12_Witness ==
    /\ searchQuery[Voter] = << >>
    /\ getRestaurantPoints(Voter, "J") = 300
    /\ getRestaurantPoints(Voter, "B") = 300
    /\ groupedRestaurants(Voter)["BBQ"] = << "B", "J", "A", "D", "F", "H" >>

\* A list holds the n best of a set of listings of client u: it is ranked, has no
\* duplicate, has n entries (all of the set when the set has fewer), and no listing of
\* the set outside the list has a strictly higher total than one inside.
BestOf(u, list, n, set) ==
    /\ Range(list) \subseteq set
    /\ Len(list) = Cardinality(Range(list))
    /\ Len(list) = IF Cardinality(set) < n THEN Cardinality(set) ELSE n
    /\ RankedStably(u, list)
    /\ \A in \in Range(list) : \A out \in set \ Range(list) :
           getRestaurantPoints(u, out) <= getRestaurantPoints(u, in)

\* The entries of a list that belong to category c, in the order of the list.
ofCategory(u, list, c) ==
    SelectSeq(list, LAMBDA id : data[u].restaurants[id].category = c)

votesOn(votes, id) == {d \in DOMAIN votes : votes[d].restaurantId = id}

\* C14 - Delete cascade: when the admin's delete of listing id completes, the listing,
\* every vote document that references id (category or overall) and the global tally
\* entry of id are gone, removed by that one step.
C14_DeleteCascade ==
    [][ deleteCommit =>
            LET id == deletion[1].id
            IN  /\ id \notin DOMAIN restaurants'
                /\ votesOn(user_votes', id) = {}
                /\ id \notin DOMAIN global_rankings' ]_vars

\* The holder of the slot a request addresses, in a ledger of client u.
slotHolder(u, votes, request) ==
    IF request.type = "overall" THEN votes.overallTopPick
    ELSE LET current == categoryVote(votes, data[u].restaurants[request.id].category)
         IN  IF request.type = "top" THEN current.topId ELSE current.runnerUpId

\* The voter has made exactly one request and its handler has ended.
VotedOnce ==
    /\ Len(trace) = 1
    /\ Quiet(Voter)

\* C15 - Total transitions: from every ledger, every vote request (restaurant, slot) is
\* applied: once its handler has ended the addressed slot is empty if it held the
\* restaurant before (toggle off) and holds the restaurant otherwise.
C15_TotalTransitions ==
    VotedOnce =>
        LET before == slotHolder(Voter, votes0[Voter], trace[1])
            after == slotHolder(Voter, userVotes[Voter], trace[1])
        IN  after = IF before = trace[1].id THEN NULL ELSE trace[1].id

\* The weight of the votes a ledger holds for id: 100 top, 25 runner-up, 500 overall.
ledgerWeight(votes, id) ==
    TopPoints * Indicator(isTop(votes, id))
    + RunnerUpPoints * Indicator(isRunnerUp(votes, id))
    + OverallPoints * Indicator(isOverallPick(votes, id))

\* C16 - Rapid toggling: a live user's handlers may start before earlier ones have
\* finished and interleave at their awaits; once every handler has ended, every push is
\* applied and the snapshot is delivered, the pushed deltas of every restaurant sum to
\* the weight of the user's votes active in the final ledger.
C16_RapidToggling ==
    \A u \in Users :
        (isGlobalLive[u] /\ Quiet(u)) =>
            \A id \in RestaurantIds :
                emitted[u][id] = ledgerWeight(userVotes[u], id) - ledgerWeight(votes0[u], id)

\* C17 - Displaced holder: in either build, when a category vote puts X into a slot that
\* a different restaurant Y held, Y no longer holds the slot once the handler has ended
\* and the deltas emitted for Y are one negative delta of the slot's weight.
C17_DisplacedHolder ==
    (VotedOnce /\ trace[1].type \in VoteTypes) =>
        LET Y == slotHolder(Voter, votes0[Voter], trace[1])
        IN  (Y # NULL /\ Y # trace[1].id) =>
                /\ slotHolder(Voter, userVotes[Voter], trace[1]) = trace[1].id
                /\ emitted[Voter][Y] = 0 - weight(trace[1].type)

\* The number of deltas a handler hands to syncVoteToFirebase.
deltaCount(handler) == Len(SelectSeq(handler.calls, LAMBDA c : c.op = "sync"))

\* The handler that a click of client u has just started.
started(u) == handlers'[u][Len(handlers'[u])]

\* The ledger facts that decide the deltas of handleVote(id, category, type) of client u.
voteCase(u, id, type) ==
    LET current == categoryVote(userVotes[u], data[u].restaurants[id].category)
        holder == IF type = "top" THEN current.topId ELSE current.runnerUpId
        other == IF type = "top" THEN current.runnerUpId ELSE current.topId
    IN  [toggleOff |-> holder = id,
         emptySlot |-> holder = NULL,
         displaces |-> holder # NULL /\ holder # id,
         moves |-> holder # id /\ other = id]

callsOf(u, votes, request) ==
    IF request.type = "overall"
    THEN handleVoteOverallCalls(u, votes.overallTopPick, request.id)
    ELSE LET category == data[u].restaurants[request.id].category
         IN  handleVoteCalls(u, categoryVote(votes, category), request.id, category,
                             request.type)

\* The sum of the deltas that a sequence of calls hands to syncVoteToFirebase for the
\* restaurants of a set.
deltaSum(calls, ids) ==
    Sum([i \in {j \in DOMAIN calls : calls[j].op = "sync" /\ calls[j].id \in ids} |->
            calls[i].delta])

\* The larger of two integers.
Max(a, b) == IF a < b THEN b ELSE a

\* C19 - Remove-before-add: a handler never issues a negative delta after a positive one,
\* and while one transition is under way or has ended early (a rejected write ends the
\* handler), the deltas issued so far never credit a restaurant, or all restaurants
\* together, with more than the whole transition gives it (and never with more than 0
\* when the transition gives less).  A delta counts as issued when it is handed to
\* syncVoteToFirebase.
C19_RemoveBeforeAdd ==
    /\ \A u \in Users : \A h \in Range(handlers[u]) :
           \A i \in DOMAIN h.calls : \A j \in DOMAIN h.calls :
               (i < j /\ h.calls[i].op = "sync" /\ h.calls[j].op = "sync") =>
                   ~(h.calls[i].delta > 0 /\ h.calls[j].delta < 0)
    /\ Len(trace) = 1 =>
           LET planned == callsOf(Voter, votes0[Voter], trace[1])
               issued(ids) == Sum([id \in ids |-> emitted[Voter][id]])
           IN  /\ \A id \in RestaurantIds :
                      issued({id}) <= Max(0, deltaSum(planned, {id}))
               /\ issued(RestaurantIds) <= Max(0, deltaSum(planned, RestaurantIds))

\* The voter held top A and runner-up B and voted top B; the handler issued -100 for the
\* displaced A, then its delete of the runner-up document was rejected and it ended: the
\* transition is partially applied and B has not been credited.
C19_Witness ==
    /\ trace = << Request(Voter, "B", "top") >>
    /\ categoryVote(votes0[Voter], "BBQ") = [topId |-> "A", runnerUpId |-> "B"]
    /\ handlers[Voter] = << >>
    /\ used.failures = 1
    /\ emitted[Voter] = [id \in RestaurantIds |-> IF id = "A" THEN 0 - TopPoints ELSE 0]
    /\ user_votes = DocsOf(Voter, "BBQ", "A", "B", votes0[Voter].overallTopPick)

\* C20 - Ledger/aggregate agreement: from every ledger and for every outcome of the steps
\* of a transition (each vote document write or tally push succeeds or fails), once the
\* handler has ended the deltas it handed to syncVoteToFirebase for a restaurant sum to
\* the change of the weight that the user's ledger holds for that restaurant.
C20_LedgerAggregateAgreement ==
    VotedOnce =>
        \A id \in RestaurantIds :
            ledgerWeight(userVotes[Voter], id) - ledgerWeight(votes0[Voter], id)
                = emitted[Voter][id]

\* C21 - Degraded mode on push failure: a push that fails changes neither the vote log,
\* the ledger, the tally nor the snapshot used for display, and the handler keeps its
\* remaining steps; with pushes failing, a request is still applied to the ledger once
\* its handler has ended (the ledger is updated, not rolled back).
C21_DegradedMode ==
    /\ [][ \A i \in 1..MaxInFlight :
               syncFails(Voter, i) =>
                   /\ globalScores' = globalScores /\ global_rankings' = global_rankings
                   /\ user_votes' = user_votes /\ userVotes' = userVotes
                   /\ isGlobalLive' = isGlobalLive
                   /\ Len(handlers[Voter][i].calls) > 1 =>
                          handlers'[Voter][i].calls = Tail(handlers[Voter][i].calls) ]_vars
    /\ []((VotedOnce /\ used.failures > 0) =>
              LET before == slotHolder(Voter, votes0[Voter], trace[1])
                  after == slotHolder(Voter, userVotes[Voter], trace[1])
              IN  /\ after = IF before = trace[1].id THEN NULL ELSE trace[1].id
                  /\ userVotes[Voter] = votesFromSnapshot(Voter))

\* The voter held top A and voted top B; the push of -100 for A failed, the vote document
\* was written all the same: the ledger holds top B, the tally and the delivered snapshot
\* still credit A with 100.
C21_Witness ==
    /\ VotedOnce /\ used.failures = 1
    /\ trace = << Request(Voter, "B", "top") >>
    /\ categoryVote(votes0[Voter], "BBQ") = [topId |-> "A", runnerUpId |-> NULL]
    /\ categoryVote(userVotes[Voter], "BBQ") = [topId |-> "B", runnerUpId |-> NULL]
    /\ votes0[Voter].overallTopPick = NULL
    /\ global_rankings = ("A" :> TopPoints) @@ ("B" :> TopPoints)
    /\ globalScores[Voter] = global_rankings

\* C22 - Local-first ordering: in either build, once a push of the voter's one transition
\* has resolved, the ledger already shows the transition: the addressed slot is empty
\* on a toggle-off and holds the voted restaurant otherwise.
C22_LedgerBeforePush ==
    (Len(trace) = 1 /\ \E id \in RestaurantIds : emitted[Voter][id] # 0) =>
        LET before == slotHolder(Voter, votes0[Voter], trace[1])
            after == slotHolder(Voter, userVotes[Voter], trace[1])
        IN  after = IF before = trace[1].id THEN NULL ELSE trace[1].id

\* Both builds have been given the same requests and the authenticated one has finished.
SameRequests ==
    /\ Len(requestsOf(LocalClient)) = Len(requestsOf(AuthClient))
    /\ Quiet(AuthClient)

\* C23 - Handler equivalence: after the same sequence of category and overall requests,
\* made one at a time from an empty ledger, the ledger of the local-first handlers equals
\* the ledger that the user_votes listener rebuilds from the vote documents written by
\* the authenticated handlers.
C23_HandlerEquivalence ==
    SameRequests =>
        /\ SameLedger(userVotes[LocalClient], votesFromSnapshot(AuthClient))
        /\ SameLedger(userVotes[LocalClient], userVotes[AuthClient])

\* Both builds were asked top A, runner-up B, top B with B in A's category: both ledgers
\* hold B as top choice and no runner-up.
C23_Witness ==
    /\ SameRequests
    /\ requestsOf(LocalClient) = << Request(LocalClient, "A", "top"),
                                    Request(LocalClient, "B", "runnerUp"),
                                    Request(LocalClient, "B", "top") >>
    /\ restaurants["B"].category = "BBQ"
    /\ categoryVote(userVotes[LocalClient], "BBQ") = [topId |-> "B", runnerUpId |-> NULL]
    /\ categoryVote(userVotes[AuthClient], "BBQ") = [topId |-> "B", runnerUpId |-> NULL]

\* A stored listing with its timestamp set aside.
timeless(record) == [record EXCEPT !.submittedAt = 0]

\* The i-th save in flight submits a name and location of which a submission is stored.
Resubmits(i) ==
    /\ i \in DOMAIN saving
    /\ \E t \in submitted :
           /\ t.id \in DOMAIN restaurants
           /\ t.name = saving[i].restaurant.name
           /\ t.location = saving[i].location

\* C24 - Idempotent re-submission: the id is a function of name and location only, so
\* two submissions of the same name and location have the same id, and the save of a
\* listing that is stored already as submitted leaves the store as it is (timestamps
\* aside) and adds no record.
C24_IdempotentResubmission ==
    /\ [](\A t1 \in submitted : \A t2 \in submitted :
             (t1.name = t2.name /\ t1.location = t2.location) => t1.id = t2.id)
    /\ [][ \A i \in 1..MaxSaving :
               (saveCommit(i) /\ Resubmits(i)) =>
                   LET r == saving[i].restaurant
                   IN  /\ r.id \in DOMAIN restaurants
                       /\ DOMAIN restaurants' = DOMAIN restaurants
                       /\ timeless(restaurants[r.id]) = timeless(stored(r)) =>
                              \A id \in DOMAIN restaurants :
                                  timeless(restaurants'[id]) = timeless(restaurants[id]) ]_vars

\* C25 - Rate limiter window: for every address, every interval of windowMs ticks holds
\* at most maxRequests allowed requests (a sliding window); a blocked request leaves the
\* counter as it was and reports a positive retry-after time.
C25_RateLimiterWindow ==
    /\ [](\A ip \in Ips : Len(allowedAt[ip]) <= maxRequests)
    /\ [](\A i \in DOMAIN lastCheck : ~lastCheck[i].allowed => lastCheck[i].retryAfterMs > 0)
    /\ [][ \A ip \in Ips :
               (checkRateLimit(ip) /\ ~lastCheck'[1].allowed) =>
                   /\ ip \in DOMAIN ipWindows /\ ip \in DOMAIN ipWindows'
                   /\ ipWindows'[ip].count = ipWindows[ip].count ]_vars

\* C26 - Recategorization frame: the commit of a recategorization of X from C1 changes
\* only X's category among the listings, leaves the global tally as it is, and removes no
\* vote document but those that name X under C1: votes under other categories, overall
\* votes and votes for other restaurants stay as they are.
C26_RecatFrame ==
    [][ batchCommit =>
            LET id == recat[1].id
                oldCategory == recat[1].oldCategory
            IN  /\ global_rankings' = global_rankings
                /\ DOMAIN restaurants' = DOMAIN restaurants
                /\ \A r \in DOMAIN restaurants :
                       /\ restaurants'[r].basePoints = restaurants[r].basePoints
                       /\ r # id => restaurants'[r] = restaurants[r]
                /\ \A d \in DOMAIN user_votes :
                       (user_votes[d].restaurantId # id \/ user_votes[d].category # oldCategory)
                           => (d \in DOMAIN user_votes' /\ user_votes'[d] = user_votes[d]) ]_vars

\* C27 - Not-live transitions: every call of a vote handler that the voter started while
\* the live flag was false leaves the global tally as it is, while its deleteDoc removes
\* the vote document and its setDoc writes the vote document for the clicked restaurant.
C27_NotLiveTransition ==
    [][ \A i \in 1..MaxInFlight :
            ( /\ i \in DOMAIN handlers[Voter]
              /\ ~handlers[Voter][i].live
              /\ handlers' = Advance(Voter, i) )
            => LET c == NextCall(Voter, i)
               IN  /\ global_rankings' = global_rankings
                   /\ c.op = "deleteDoc" => c.ref \notin DOMAIN user_votes'
                   /\ c.op = "setDoc" =>
                          /\ c.ref \in DOMAIN user_votes'
                          /\ user_votes'[c.ref].restaurantId = c.id ]_vars

\* The voter, whose listener has not emitted yet, has completed a vote: the vote document
\* is written, a delta was handed to syncVoteToFirebase, and no tally entry exists.
C27_Witness ==
    /\ lastSignal[Voter] = "none"
    /\ ~isGlobalLive[Voter]
    /\ handlers[Voter] = << >>
    /\ \E id \in RestaurantIds : emitted[Voter][id] # 0
    /\ user_votes # EmptyMap
    /\ global_rankings = EmptyMap

\* C28 - Non-negative tally: in every reachable state the global tally of every
\* restaurant id is greater than or equal to 0.
C28_NonNegativeTally ==
    \A id \in DOMAIN global_rankings : global_rankings[id] >= 0

\* C29 - Stats preserved on re-save: the write of a saveRestaurant whose id is already
\* stored leaves that listing's stored base score as it is.
C29_StatsPreserved ==
    [][ \A i \in 1..MaxSaving :
            ( /\ saveCommit(i)
              /\ saving[i].restaurant.id \in DOMAIN restaurants )
            => LET id == saving[i].restaurant.id
               IN  restaurants'[id].basePoints = restaurants[id].basePoints ]_vars

\* ---------------------------------------------------------------------------
\* The card of a restaurant.

\* The props `userScore` and `globalCommunityPoints` that App passes to the card of the
\* restaurant id of client u; an undefined prop is the empty sequence.
userScore(u, id) ==
    getRestaurantPoints(u, id) - data[u].restaurants[id].basePoints - OrZero(globalScores[u], id)

globalCommunityPoints(u, id) ==
    IF isGlobalLive[u] THEN << OrZero(globalScores[u], id) >> ELSE << >>

\* RestaurantCard's `restaurant.basePoints + userScore + (globalCommunityPoints || 0)`.
totalDisplayPoints(restaurant, score, communityPoints) ==
    restaurant.basePoints + score + (IF communityPoints = << >> THEN 0 ELSE communityPoints[1])

\* C30 - Display/ranking consistency: in every state, live or not, the total shown on
\* the card of a restaurant equals getRestaurantPoints of that restaurant, the total
\* that orders it in its category bucket and in the top-N list.
C30_DisplayMatchesRanking ==
    \A u \in Users : \A id \in DOMAIN data[u].restaurants :
        totalDisplayPoints(data[u].restaurants[id], userScore(u, id),
                           globalCommunityPoints(u, id))
            = getRestaurantPoints(u, id)
====
